---- MODULE Spec2Model ----
(***************************************************************************)
(* Model of the LibLearner extraction pipeline                             *)
(* (liblearner/file_processor.py): ProcessorRegistry with its ledger of    *)
(* processed files, the in-memory chunk, the spilled chunk files and the   *)
(* materialization pass, together with the directory walk and the          *)
(* processors' accumulated result frames.                                  *)
(*                                                                         *)
(* File and directory names are sequences of tokens ("pkg.egg-info" is     *)
(* <<"pkg", ".egg-info">>), so that the extension lookup, the '*' test on  *)
(* ignore patterns and glob matching are computed, not tabulated.          *)
(***************************************************************************)
EXTENDS Integers, Sequences, FiniteSets, TLC

\* ------------------------------------------------------------------ bounds
\* largest value given to set_chunk_size
MaxChunkSize == 2

\* number of direct process_file calls made outside process_directory
MaxCalls == 1

\* number of the files of node_modules/ that are handed to process_file one
\* after the other (more than ten, so that chunk_10 exists)
MaxModules == 11

\* number of table segments written to one output directory
MaxSegments == 3

\* ------------------------------------------------------------ the file tree
A_py == <<"a", ".py">>

L_py == <<"l", ".py">>

B_py == <<"b", ".py">>

C_js == <<"c", ".js">>

V_py == <<"v", ".py">>

E_py == <<"e", ".py">>

T_py == <<"t", ".py">>

N_js == <<"n", ".js">>

Notes_txt == <<"notes", ".txt">>

S_sh == <<"s", ".sh">>

\* files of venv/ with particular names, sizes and contents: an upper-case
\* extension, an empty file, a .py file of binary garbage, a notebook saved
\* as .json, a Markdown file with the long extension, a file magic cannot read
G_PY == <<"g", ".PY">>

Empty_js == <<"empty", ".js">>

Bin_py == <<"bin", ".py">>

Nb_json == <<"nb", ".json">>

R_markdown == <<"r", ".markdown">>

Data_bin == <<"data", ".bin">>

\* a name no directory holds
Gone_py == <<"gone", ".py">>

\* the names of the files of node_modules/
ModuleNames ==
    << <<"m00", ".js">>, <<"m01", ".js">>, <<"m02", ".js">>, <<"m03", ".js">>,
       <<"m04", ".js">>, <<"m05", ".js">>, <<"m06", ".js">>, <<"m07", ".js">>,
       <<"m08", ".js">>, <<"m09", ".js">>, <<"m10", ".js">>, <<"m11", ".js">>,
       <<"m12", ".js">>, <<"m13", ".js">> >>

D_src == <<"src">>

D_venv == <<"venv">>

D_egg == <<"pkg", ".egg-info">>

D_mytests == <<"my", "tests">>

D_node == <<"node_modules">>

\* every directory entry that is a file (regular or symbolic link), as the
\* sequence of names from the root of the tree
AllFiles ==
    { <<A_py>>, <<L_py>>, <<Notes_txt>>,
      <<D_src, B_py>>, <<D_src, C_js>>,
      <<D_venv, V_py>>, <<D_venv, S_sh>>,
      <<D_venv, G_PY>>, <<D_venv, Empty_js>>, <<D_venv, Bin_py>>,
      <<D_venv, Nb_json>>, <<D_venv, R_markdown>>, <<D_venv, Data_bin>>,
      <<D_egg, E_py>>,
      <<D_src, D_mytests, T_py>>,
      <<D_src, D_node, N_js>> }
        \cup { <<D_node, ModuleNames[i]>> : i \in 1..Len(ModuleNames) }

\* symbolic links to files: l.py -> a.py
Links == (<<L_py>> :> <<A_py>>)

\* the order in which a directory listing returns names
Listing ==
    << A_py, L_py, Notes_txt, B_py, C_js, V_py, S_sh, E_py, T_py, N_js,
       G_PY, Empty_js, Bin_py, Nb_json, R_markdown, Data_bin >>
        \o ModuleNames
        \o << D_egg, D_src, D_venv, D_mytests, D_node >>

\* the statements of a file, in source order, each with the names it binds:
\* src/b.py is "def g(): pass" followed by "import os, sys", every other
\* file holds one function
Content(target) ==
    IF target = <<D_src, B_py>>
    THEN << [type |-> "function", names |-> <<"g">>],
            [type |-> "import", names |-> <<"os", "sys">>] >>
    ELSE << [type |-> "function", names |-> <<"f">>] >>

\* number of records the extractor produces for a file (by its content)
NumRecords(target) ==
    LET c == Content(target)
        count[i \in 0..Len(c)] == IF i = 0 THEN 0 ELSE count[i - 1] + Len(c[i].names)
    IN  count[Len(c)]

\* -------------------------------------------------------------- constants
DEFAULT_IGNORE_DIRS ==
    { <<"venv">>, <<".git">>, <<"ds_venv">>, <<"dw_env">>, <<"__pycache__">>,
      <<".venv">>, <<"*", ".egg-info">>, <<".github">>, <<"node_modules">>,
      <<"*", "tests", "*">> }

\* variant: pickle is imported at module level
ModuleGlobals_pickle ==
    { "os", "mimetypes", "magic", "sys", "logging", "time", "psutil", "Path",
      "defaultdict", "pd", "tqdm", "ProcessingResult", "glob", "np", "shutil",
      "gc", "logger", "pickle" }

\* names bound at module level of file_processor.py (its import statements
\* and top-level definitions); `import pickle` is local to _write_chunk
ModuleGlobals ==
    { "os", "mimetypes", "magic", "sys", "logging", "time", "psutil", "Path",
      "defaultdict", "pd", "tqdm", "ProcessingResult", "glob", "np", "shutil",
      "gc", "logger" }

\* FileTypeDetector._extension_mime_types
extension_mime_types ==
    [ e \in { ".py", ".pyi", ".pyw", ".ipynb", ".txt", ".md", ".mdx", ".json",
              ".yaml", ".yml", ".js", ".sh", ".bash" } |->
        CASE e \in {".py", ".pyi"} -> "text/x-python"
          [] e = ".pyw" -> "text/x-python-executable"
          [] e = ".ipynb" -> "application/x-ipynb+json"
          [] e = ".txt" -> "text/plain"
          [] e = ".md" -> "text/markdown"
          [] e = ".mdx" -> "text/mdx"
          [] e = ".json" -> "application/json"
          [] e \in {".yaml", ".yml"} -> "text/x-yaml"
          [] e = ".js" -> "application/javascript"
          [] e \in {".sh", ".bash"} -> "application/x-shellscript" ]

\* supported_types of the two processors of the model
PySupported ==
    { "text/x-python", "text/x-python-script", "application/x-python",
      "application/x-python-code", "text/x-python-executable" }

JsSupported == { "application/javascript", "text/javascript", "application/x-javascript" }

ShSupported ==
    { "text/x-shellscript", "application/x-shellscript", "text/x-sh", "application/x-sh" }

\* the processor instances of a pipeline run
Processors == { "PythonProcessor", "JavaScriptProcessor" }

\* every processor instance a caller constructs: the two above, a shell
\* processor and a second instance of PythonProcessor
Instances == Processors \cup { "ShellProcessor", "PythonProcessor_2" }

\* type(processor).__name__
ClassOf(proc) == IF proc = "PythonProcessor_2" THEN "PythonProcessor" ELSE proc

get_supported_types(proc) ==
    CASE ClassOf(proc) = "PythonProcessor" -> PySupported
      [] ClassOf(proc) = "JavaScriptProcessor" -> JsSupported
      [] ClassOf(proc) = "ShellProcessor" -> ShSupported
      [] ClassOf(proc) = "JSONProcessor" -> { "application/json", "text/json" }
      [] ClassOf(proc) = "JupyterProcessor" ->
            { "application/x-ipynb+json", "application/x-jupyter", "text/x-ipynb+json" }
      [] ClassOf(proc) = "MarkdownProcessor" ->
            { "text/markdown", "text/x-markdown", "text/mdx" }
      [] ClassOf(proc) = "YAMLProcessor" ->
            { "text/x-yaml", "application/x-yaml", "text/yaml" }

None == "None"

\* ------------------------------------------------------------------ paths
\* A path string is [abs, segs]: segs are the names below the tree root (the
\* working directory), abs tells whether the string is absolute.
Path(isAbs, segs) == [abs |-> isAbs, segs |-> segs]

\* os.path.abspath: prefixes the working directory, resolves no link
abspath(p) == Path(TRUE, p.segs)

\* the canonical path of the file a path string reaches (links resolved)
realpath(p) == Path(TRUE, IF p.segs \in DOMAIN Links THEN Links[p.segs] ELSE p.segs)

basename(p) == p.segs[Len(p.segs)]

\* os.path.splitext(...)[1]
splitext(name) == IF Len(name) > 1 THEN name[Len(name)] ELSE ""

\* ---------------------------------------------------------- sequence tools
RECURSIVE SeqSum(_)
SeqSum(s) == IF s = <<>> THEN 0 ELSE Head(s) + SeqSum(Tail(s))

RECURSIVE Flatten(_)
Flatten(ss) == IF ss = <<>> THEN <<>> ELSE Head(ss) \o Flatten(Tail(ss))

Range(s) == { s[i] : i \in 1..Len(s) }

InOrder(S) == SelectSeq(Listing, LAMBDA n : n \in S)

IsPrefix(pre, s) == Len(pre) <= Len(s) /\ SubSeq(s, 1, Len(pre)) = pre

\* ------------------------------------------------------------- the walk
\* fnmatch of a name against a pattern, '*' matching any run of tokens
RECURSIVE fnmatch(_, _)
fnmatch(name, pat) ==
    IF pat = <<>> THEN name = <<>>
    ELSE IF Head(pat) = "*"
         THEN \E k \in 0..Len(name) : fnmatch(SubSeq(name, k + 1, Len(name)), Tail(pat))
         ELSE name # <<>> /\ Head(name) = Head(pat) /\ fnmatch(Tail(name), Tail(pat))

HasStar(pattern) == \E i \in 1..Len(pattern) : pattern[i] = "*"

\* the split of the ignore patterns in process_directory
exact_ignores(ignore_dirs) == { q \in DEFAULT_IGNORE_DIRS \cup ignore_dirs : ~HasStar(q) }

glob_patterns(ignore_dirs) == { q \in DEFAULT_IGNORE_DIRS \cup ignore_dirs : HasStar(q) }

FileNames(prefix) ==
    { s[Len(prefix) + 1] : s \in { t \in AllFiles : IsPrefix(prefix, t) /\ Len(t) = Len(prefix) + 1 } }

DirNames(prefix) ==
    { s[Len(prefix) + 1] : s \in { t \in AllFiles : IsPrefix(prefix, t) /\ Len(t) > Len(prefix) + 1 } }

\* dirs[:] = [d for d in dirs if d not in exact_ignores]
KeepDir(d, exact, globs) == d \notin exact

\* os.walk(directory_path), top-down, with the in-place pruning of dirs
RECURSIVE os_walk(_, _, _)
os_walk(prefix, exact, globs) ==
    LET files == InOrder(FileNames(prefix))
        dirs == SelectSeq(InOrder(DirNames(prefix)), LAMBDA d : KeepDir(d, exact, globs))
    IN  [ i \in 1..Len(files) |-> prefix \o <<files[i]>> ]
        \o Flatten([ i \in 1..Len(dirs) |-> os_walk(prefix \o <<dirs[i]>>, exact, globs) ])

\* the file paths process_directory hands to process_file, in order
WalkPaths(dirAbs, ignore_dirs) ==
    LET w == os_walk(<<>>, exact_ignores(ignore_dirs), glob_patterns(ignore_dirs))
    IN  [ i \in 1..Len(w) |-> Path(dirAbs, w[i]) ]

\* ------------------------------------------------------- the file system
isdir(p) == \E f \in AllFiles : IsPrefix(p.segs, f) /\ Len(f) > Len(p.segs)

exists(p) == p.segs \in AllFiles \/ isdir(p)

\* os.path.getsize, in units that tell an empty file from the others
getsize(p) == IF realpath(p).segs = <<D_venv, Empty_js>> THEN 0 ELSE 1

\* str.lower() of an extension
lower(ext) == IF ext = ".PY" THEN ".py" ELSE ext

\* what libmagic reads from the content of a file: "error" when it cannot
\* read the file
from_file(p) ==
    CASE realpath(p).segs = <<D_venv, Bin_py>> -> "application/octet-stream"
      [] realpath(p).segs = <<D_venv, Nb_json>> -> "application/json"
      [] realpath(p).segs = <<D_venv, Data_bin>> -> "error"
      [] OTHER -> "text/plain"

\* mimetypes.guess_type(file_path)[0]
guess_type(p) ==
    LET ext == lower(splitext(basename(p)))
    IN  CASE ext = ".py" -> "text/x-python"
          [] ext = ".js" -> "text/javascript"
          [] ext = ".json" -> "application/json"
          [] ext = ".txt" -> "text/plain"
          [] ext = ".sh" -> "application/x-sh"
          [] OTHER -> None

\* whether json.load of the file gives an object with the key 'nbformat'
nbformat(p) == realpath(p).segs = <<D_venv, Nb_json>>

\* ------------------------------------------------------- type detection
\* the type detect_type gives an empty file whose extension is not in the
\* table
empty_file_type(ext) ==
    CASE ext = ".py" -> "text/x-python"
      [] ext = ".pyw" -> "text/x-python-executable"
      [] ext = ".md" -> "text/markdown"
      [] ext = ".mdx" -> "text/mdx"
      [] ext = ".js" -> "text/javascript"
      [] ext \in {".yaml", ".yml"} -> "text/x-yaml"
      [] ext = ".ipynb" -> "application/x-ipynb+json"
      [] ext \in {".sh", ".bash"} -> "application/x-shellscript"
      [] ext = ".json" -> "application/json"
      [] OTHER -> "text/plain"

\* magic.from_file, and mimetypes when it raises
sniffed_type(p) ==
    IF from_file(p) # "error" THEN from_file(p)
    ELSE IF guess_type(p) # None THEN guess_type(p) ELSE "application/octet-stream"

\* variant: the test for an empty file comes before the extension table
detect_type_size_first(p) ==
    LET ext == lower(splitext(basename(p)))
    IN  IF ~exists(p) \/ isdir(p) THEN ""
        ELSE IF getsize(p) = 0 THEN empty_file_type(ext)
        ELSE IF ext \in DOMAIN extension_mime_types THEN extension_mime_types[ext]
        ELSE sniffed_type(p)

\* FileTypeDetector.detect_type of file_processor.py, the detector of the
\* registry
detect_type(p) ==
    LET ext == lower(splitext(basename(p)))
    IN  IF ~exists(p) \/ isdir(p) THEN ""
        ELSE IF ext \in DOMAIN extension_mime_types THEN extension_mime_types[ext]
        ELSE IF getsize(p) = 0 THEN empty_file_type(ext)
        ELSE sniffed_type(p)

\* FileTypeDetector.extension_overrides of file_type_detector.py
extension_overrides ==
    [ e \in { ".py", ".yaml", ".yml", ".md", ".rst", ".ini", ".toml", ".json", ".txt" } |->
        CASE e = ".py" -> "text/x-python"
          [] e \in {".yaml", ".yml"} -> "text/x-yaml"
          [] e = ".md" -> "text/markdown"
          [] e = ".rst" -> "text/x-rst"
          [] e = ".ini" -> "text/x-ini"
          [] e = ".toml" -> "text/x-toml"
          [] e = ".json" -> "application/json"
          [] e = ".txt" -> "text/plain" ]

\* what magic.from_file does with a directory, by the version of the
\* library: it names it, or raises on opening it
DirectorySniffs == { "inode/directory", "error" }

\* FileTypeDetector.detect_type of file_type_detector.py, the detector used
\* outside the registry
standalone_detect_type(p, dir_sniff) ==
    LET ext == lower(splitext(basename(p)))
        magic == IF isdir(p) THEN dir_sniff ELSE from_file(p)
        type == IF ext \in DOMAIN extension_overrides THEN extension_overrides[ext]
                ELSE IF magic = "text/plain" /\ ext = ".py" THEN "text/x-python"
                ELSE IF magic # "error" THEN magic
                ELSE IF guess_type(p) # None THEN guess_type(p)
                ELSE "application/octet-stream"
    IN  IF ~exists(p) THEN [raised |-> TRUE, type |-> None]
        ELSE [raised |-> FALSE, type |-> type]

\* --------------------------------------------------------- the processors
\* self._order_counter = 0 at the start of <processor>.process_file
order_counter_reset == 0

\* the records an extractor produces for a file: the order counter is
\* incremented once per statement and every name the statement binds gets a
\* record with the counter's value; filepath is str(path.absolute()); src
\* stands for the content column (it depends on the file's content only)
RecordsOf(p) ==
    LET c == Content(realpath(p).segs)
    IN  Flatten([ i \in 1..Len(c) |->
            [ j \in 1..Len(c[i].names) |->
                [ filepath |-> abspath(p), order |-> order_counter_reset + i,
                  name |-> c[i].names[j], src |-> realpath(p).segs ] ] ])

\* <processor>.process_file: outcome "ok" parses the file and adds its rows
\* to the processor's frame (PythonProcessor and JavaScriptProcessor
\* accumulate the rows of all files, ShellProcessor keeps the last file's);
\* "syntax_error" records an error and produces no row.  kind is the class
\* of the result object.
ProcessorProcessFile(ps, p, outcome, proc) ==
    LET kind == IF ClassOf(proc) = "ShellProcessor" THEN "ShellProcessingResult"
                ELSE "ProcessingResult"
    IN  IF outcome = "ok"
        THEN [ state |-> [ps EXCEPT !.results_df =
                            IF ClassOf(proc) = "ShellProcessor" THEN RecordsOf(p)
                            ELSE @ \o RecordsOf(p)],
               errors |-> FALSE, kind |-> kind ]
        ELSE [ state |-> ps, errors |-> TRUE, kind |-> kind ]

\* ProcessingResult.is_valid, and its override in ShellProcessingResult
is_valid(result) ==
    IF result.kind = "ShellProcessingResult" THEN TRUE ELSE ~result.errors

\* the accessor process_file calls on the processor after a valid result
get_results_dataframe(ps) == ps.results_df

\* FileProcessor.clear_results: resets _results and _data when the processor
\* has such attributes
clear_results(ps) ==
    [ k \in DOMAIN ps |->
        IF k = "_results" THEN <<>> ELSE IF k = "_data" THEN None ELSE ps[k] ]

\* --------------------------------------------------------- the extractors
\* the extractor classes of liblearner/processors
Extractors ==
    { "PythonProcessor", "YAMLProcessor", "MarkdownProcessor", "JSONProcessor",
      "JupyterProcessor", "JavaScriptProcessor", "ShellProcessor" }

\* the content of a file handed to an extractor: whether the format's
\* grammar accepts it ("syntax_error": an unclosed construct; "bad_character":
\* a character the format's reader rejects, such as a control character), the
\* kind of its top-level value, and its constructs as a tree of nodes
Leaf(kind, name) == [kind |-> kind, name |-> name, body |-> <<>>]

Nodes_f == << Leaf("function", "f") >>

\* class K: def m(self): def inner(): ...   followed by   def h(): ...
Nodes_nested ==
    << [ kind |-> "class", name |-> "K",
         body |-> << [ kind |-> "function", name |-> "m",
                       body |-> << Leaf("function", "inner") >> ] >> ],
       Leaf("function", "h") >>

Document(syntax, top, nodes) == [syntax |-> syntax, top |-> top, nodes |-> nodes]

Documents ==
    { Document("valid", "dict", Nodes_f), Document("valid", "list", Nodes_nested),
      Document("syntax_error", "dict", <<>>), Document("bad_character", "dict", <<>>) }

\* PythonProcessor's traversal; st holds _current_path, _order_counter and
\* the results_data list of the call.
\* _process_function up to its loop over the children: the name is pushed on
\* _current_path before the record is built, so _get_current_path()
\* includes it
process_function(node, st, file_path) ==
    LET pushed == [st EXCEPT !.current_path = Append(@, node.name),
                             !.order_counter = @ + 1]
        record == [ type |-> IF st.current_path # <<>> THEN "method" ELSE "function",
                    name |-> node.name,
                    filepath |-> file_path,
                    parent_path |-> pushed.current_path,
                    order |-> pushed.order_counter ]
    IN  [pushed EXCEPT !.results_data = Append(@, record)]

\* _process_class up to its loop over the children, with the same push
\* before the record
process_class(node, st, file_path) ==
    LET pushed == [st EXCEPT !.current_path = Append(@, node.name),
                             !.order_counter = @ + 1]
        record == [ type |-> "class",
                    name |-> node.name,
                    filepath |-> file_path,
                    parent_path |-> pushed.current_path,
                    order |-> pushed.order_counter ]
    IN  [pushed EXCEPT !.results_data = Append(@, record)]

\* the children a definition descends into: a function into its nested
\* functions, a class into its methods and nested classes
child_kinds(node) == IF node.kind = "class" THEN {"function", "class"} ELSE {"function"}

\* _process_node over the definitions of a body, in source order: each is
\* recorded, its children are processed, and its name is popped from
\* _current_path
RECURSIVE process_node(_, _, _, _)
process_node(nodes, kinds, st, file_path) ==
    IF nodes = <<>> THEN st
    ELSE LET node == Head(nodes)
             entered == IF node.kind = "class" THEN process_class(node, st, file_path)
                        ELSE process_function(node, st, file_path)
             done == process_node(node.body, child_kinds(node), entered, file_path)
             left == [done EXCEPT !.current_path = SubSeq(@, 1, Len(@) - 1)]
         IN  process_node(Tail(nodes), kinds,
                          IF node.kind \in kinds THEN left ELSE st, file_path)

\* the records PythonProcessor.process_file builds for a module: the
\* traversal, then data['filepath'] = str(path.absolute())
PythonRecords(p, doc) ==
    LET st0 == [current_path |-> <<>>, order_counter |-> order_counter_reset,
                results_data |-> <<>>]
        st == process_node(doc.nodes, {"function", "class"}, st0, p)
    IN  [ i \in 1..Len(st.results_data) |->
            [st.results_data[i] EXCEPT !.filepath = abspath(p)] ]

\* str(path.parent)
parent(p) == Path(p.abs, SubSeq(p.segs, 1, Len(p.segs) - 1))

\* JSONProcessor.to_csv: one row per item of a list, one row for a dict
to_csv(doc) == IF doc.top = "list" THEN doc.nodes ELSE << doc.nodes >>

\* the records of the other extractors, one per element; a YAML record has
\* the keys type, name, content and props only
ElementRecords(class, p, doc) ==
    LET rows == IF class = "JSONProcessor" THEN to_csv(doc) ELSE doc.nodes
    IN  [ i \in 1..Len(rows) |->
            CASE class = "YAMLProcessor" ->
                    [ type |-> "scalar", name |-> i ]
              [] class \in {"JSONProcessor", "JavaScriptProcessor"} ->
                    [ type |-> class, name |-> i, filepath |-> abspath(p),
                      parent_path |-> parent(p), order |-> order_counter_reset + i ]
              [] OTHER ->
                    [ type |-> class, name |-> i, filepath |-> p,
                      parent_path |-> <<>>, order |-> order_counter_reset + i ] ]

\* <extractor>.process_file(file_path) on an existing, readable file: what
\* it returns or raises, the records it built, and the extractor afterwards
ExtractorProcessFile(class, ps, p, doc) ==
    LET none == [raised |-> FALSE, errors |-> FALSE, records |-> <<>>, state |-> ps]
        recs == IF class = "PythonProcessor" THEN PythonRecords(p, doc)
                ELSE ElementRecords(class, p, doc)
        accumulated == [none EXCEPT !.records = recs,
                           !.state = IF recs = <<>> THEN ps
                                     ELSE [ps EXCEPT !.results_df = @ \o recs]]
        replaced == [none EXCEPT !.records = recs,
                        !.state = [ps EXCEPT !.results_df = recs]]
        error == [none EXCEPT !.errors = TRUE]
    IN  CASE class = "PythonProcessor" ->
                IF doc.syntax = "valid" THEN accumulated ELSE error
          [] class = "YAMLProcessor" ->
                \* only ParserError and ScannerError are caught; the frame is
                \* rebuilt from results_data whatever the outcome
                IF doc.syntax = "valid" THEN replaced
                ELSE IF doc.syntax = "syntax_error"
                THEN [error EXCEPT !.state = [ps EXCEPT !.results_df = <<>>]]
                ELSE [none EXCEPT !.raised = TRUE]
          [] class = "MarkdownProcessor" ->
                \* validation errors are recorded and the elements still read
                IF doc.syntax = "syntax_error"
                THEN [accumulated EXCEPT !.errors = TRUE] ELSE accumulated
          [] class \in {"JSONProcessor", "JupyterProcessor", "JavaScriptProcessor"} ->
                IF doc.syntax = "valid" THEN accumulated ELSE error
          [] class = "ShellProcessor" ->
                \* no validation of the script: the regular expressions read
                \* what they match
                IF recs = <<>> THEN none ELSE replaced

\* ----------------------------------------------------------- the registry
\* ProcessorRegistry.__init__ (procs holds the state of the processor
\* instances that register_processor installs)
NewRegistry ==
    [ processors      |-> <<>>,
      processed_files |-> {},
      chunk_size      |-> 100,
      current_chunk   |-> <<>>,
      chunk_counter   |-> 0,
      chunk_dir       |-> "unset",
      disk            |-> <<>>,
      csv             |-> <<>>,
      unique_processors |-> {},
      procs           |-> [ q \in Instances \cup Extractors |-> [results_df |-> <<>>] ] ]

\* the chunk files present in the .chunks directory
ChunkFiles(r) == DOMAIN r.disk

set_output_dir(r) == [r EXCEPT !.chunk_dir = "present"]

set_chunk_size(r, size) == IF size < 1 THEN r ELSE [r EXCEPT !.chunk_size = size]

\* variant: a type that already has a processor keeps it
register_processor_keep(r, proc) ==
    [r EXCEPT !.unique_processors = @ \cup {proc},
              !.processors =
        [ m \in DOMAIN r.processors \cup get_supported_types(proc) |->
            IF m \in DOMAIN r.processors THEN r.processors[m] ELSE proc ] ]

register_processor(r, proc) ==
    [r EXCEPT !.unique_processors = @ \cup {proc},
              !.processors =
        [ m \in DOMAIN r.processors \cup get_supported_types(proc) |->
            IF m \in get_supported_types(proc) THEN proc ELSE r.processors[m] ] ]

\* ProcessorRegistry.get_processor
get_processor(r, p) ==
    LET detected == detect_type(p)
        ext == lower(splitext(basename(p)))
        mime == IF detected = "text/plain"
                THEN CASE ext = ".py" -> "text/x-python"
                       [] ext \in {".yaml", ".yml"} -> "text/x-yaml"
                       [] ext = ".json" ->
                            IF nbformat(p) THEN "application/x-ipynb+json"
                            ELSE "application/json"
                       [] ext \in {".md", ".markdown"} -> "text/markdown"
                       [] ext = ".rst" -> "text/x-rst"
                       [] ext = ".ini" -> "text/x-ini"
                       [] ext = ".toml" -> "text/x-toml"
                       [] ext = ".js" -> "application/javascript"
                       [] ext = ".ipynb" -> "application/x-ipynb+json"
                       [] ext \in {".sh", ".bash"} -> "application/x-shellscript"
                       [] OTHER -> None
                ELSE IF detected = "application/json" /\ nbformat(p)
                THEN "application/x-ipynb+json"
                ELSE detected
    IN  IF mime \in DOMAIN r.processors THEN r.processors[mime] ELSE None

\* variant: the lookup is an indexing of a defaultdict, which inserts the
\* missing key
get_processor_state_insert(r, p) ==
    [r EXCEPT !.processors =
        [ m \in DOMAIN r.processors \cup {detect_type(p)} |->
            IF m \in DOMAIN r.processors THEN r.processors[m] ELSE None ] ]

\* the registry after get_processor: detection and self._processors.get()
\* assign to no attribute of the registry
get_processor_state(r, p) == r

\* number of keys of the defaultdict _current_chunk
len(chunk) == Len(chunk)

\* _current_chunk[file_type].append(entry); a missing key is created at the
\* end of the dict
ChunkAppend(chunk, file_type, entry) ==
    IF \E i \in 1..Len(chunk) : chunk[i].file_type = file_type
    THEN [ i \in 1..Len(chunk) |->
            IF chunk[i].file_type = file_type
            THEN [chunk[i] EXCEPT !.entries = Append(@, entry)]
            ELSE chunk[i] ]
    ELSE Append(chunk, [file_type |-> file_type, entries |-> <<entry>>])

\* variant: a successful write leaves the chunk counter as it was
write_chunk_counter_kept(r, wr) ==
    IF r.current_chunk = <<>> THEN [reg |-> r, raised |-> FALSE]
    ELSE IF r.chunk_dir # "present" \/ wr = "fail" THEN [reg |-> r, raised |-> TRUE]
    ELSE [ reg |-> [r EXCEPT !.disk = (r.chunk_counter :> r.current_chunk) @@ @,
                             !.current_chunk = <<>>],
           raised |-> FALSE ]

\* ProcessorRegistry._write_chunk; wr is whether the file system lets the
\* chunk file be written
write_chunk(r, wr) ==
    IF r.current_chunk = <<>> THEN [reg |-> r, raised |-> FALSE]
    ELSE IF r.chunk_dir # "present" \/ wr = "fail" THEN [reg |-> r, raised |-> TRUE]
    ELSE [ reg |-> [r EXCEPT !.disk = (r.chunk_counter :> r.current_chunk) @@ @,
                             !.current_chunk = <<>>,
                             !.chunk_counter = @ + 1],
           raised |-> FALSE ]

\* the flush test of process_file
FlushDue(r) == len(r.current_chunk) >= r.chunk_size

\* ProcessorRegistry.process_file, given the processor get_processor
\* returns for the path (line 419) and the type detect_type gives it (line
\* 431).  The result tells what the call returned (ret), whether it raised,
\* whether it invoked the extractor, and whether a chunk write failed
\* inside it.
process_file_with(r, p, outcome, wr, proc, file_type) ==
    LET same == [reg |-> r, ret |-> None, raised |-> FALSE, invoked |-> FALSE, write_failed |-> FALSE,
                 errors |-> FALSE]
    IN  IF outcome = "vanished" \/ ~exists(p) THEN same
        ELSE IF outcome = "race" THEN [same EXCEPT !.raised = TRUE]
        ELSE IF abspath(p) \in r.processed_files THEN same
        ELSE IF proc = None THEN same
        ELSE IF outcome = "raise" THEN
            [same EXCEPT !.invoked = TRUE,
                         !.reg = [r EXCEPT !.procs[proc] = clear_results(@)]]
        ELSE
            LET run == ProcessorProcessFile(r.procs[proc], p, outcome, proc)
                r1 == [r EXCEPT !.procs[proc] = run.state]
            IN  IF ~is_valid(run)
                THEN [same EXCEPT !.invoked = TRUE, !.ret = "result", !.errors = TRUE,
                                  !.reg = [r1 EXCEPT !.procs[proc] = clear_results(@)]]
                ELSE
                    LET result_data == get_results_dataframe(r1.procs[proc])
                        r2 == [r1 EXCEPT !.procs[proc] = clear_results(@)]
                        entry == [filename |-> basename(p), data |-> result_data, path |-> abspath(p)]
                        r3 == [r2 EXCEPT !.current_chunk = ChunkAppend(@, file_type, entry)]
                        w == IF FlushDue(r3) THEN write_chunk(r3, wr)
                             ELSE [reg |-> r3, raised |-> FALSE]
                    IN  IF w.raised
                        THEN [same EXCEPT !.invoked = TRUE, !.write_failed = TRUE,
                                          !.reg = [w.reg EXCEPT !.procs[proc] = clear_results(@)]]
                        ELSE [same EXCEPT !.invoked = TRUE, !.ret = "result",
                                !.errors = run.errors,
                                !.reg = [w.reg EXCEPT
                                           !.processed_files = @ \cup {abspath(p)},
                                           !.procs[proc] = clear_results(@)]]

\* ProcessorRegistry.process_file
process_file(r, p, outcome, wr) ==
    process_file_with(r, p, outcome, wr, get_processor(r, p), detect_type(p))

\* ------------------------------------------------------- materialization
\* threshold of write_results_to_csv: DataFrames held before a table segment
\* is written
max_chunk_size == 1000

RECURSIVE Digits(_)
Digits(n) == IF n < 10 THEN <<n>> ELSE Digits(n \div 10) \o <<n % 10>>

\* the part of the name chunk_<N>.pkl that differs between chunk files; the
\* '.' that follows the number sorts before every digit
ChunkFileName(n) == Digits(n) \o <<-1>>

RECURSIVE LexLess(_, _)
LexLess(a, b) ==
    IF a = <<>> THEN b # <<>>
    ELSE IF b = <<>> THEN FALSE
    ELSE IF Head(a) # Head(b) THEN Head(a) < Head(b)
    ELSE LexLess(Tail(a), Tail(b))

\* sorted(glob.glob(.../chunk_*.pkl)): the names are sorted as strings
RECURSIVE sorted(_)
sorted(S) ==
    IF S = {} THEN <<>>
    ELSE LET m == CHOOSE x \in S :
                    \A y \in S \ {x} : LexLess(ChunkFileName(x), ChunkFileName(y))
         IN  <<m>> \o sorted(S \ {m})

\* the name pickle as write_results_to_csv resolves it (a module global)
PickleResolves == "pickle" \in ModuleGlobals

\* with open(chunk_file, 'rb') as f: chunk_data = pickle.load(f)
\* unreadable holds the chunk files the file system fails to open
pickle_load(disk, n, unreadable) ==
    IF n \in unreadable \/ ~PickleResolves
    THEN [raised |-> TRUE, data |-> <<>>]
    ELSE [raised |-> FALSE, data |-> disk[n]]

safe_name(file_type) ==
    CASE file_type = "text/x-python" -> "text_x_python"
      [] file_type = "application/javascript" -> "application_javascript"
      [] file_type = "text/plain" -> "text_plain"
      [] OTHER -> "other"

\* the DataFrames of a list of chunk entries
DataFrames(entries) == [ i \in 1..Len(entries) |-> entries[i].data ]

\* all_dfs[file_type].extend(dfs) for every type of one chunk, in dict order
RECURSIVE ExtendAll(_, _)
ExtendAll(all_dfs, chunk_data) ==
    IF chunk_data = <<>> THEN all_dfs
    ELSE LET g == Head(chunk_data)
             dfs == DataFrames(g.entries)
             next == IF \E i \in 1..Len(all_dfs) : all_dfs[i].file_type = g.file_type
                     THEN [ i \in 1..Len(all_dfs) |->
                             IF all_dfs[i].file_type = g.file_type
                             THEN [all_dfs[i] EXCEPT !.dfs = @ \o dfs]
                             ELSE all_dfs[i] ]
                     ELSE Append(all_dfs, [file_type |-> g.file_type, dfs |-> dfs])
         IN  ExtendAll(IF Len(dfs) > 0 THEN next ELSE all_dfs, Tail(chunk_data))

CountDfs(chunk_data) == SeqSum([ i \in 1..Len(chunk_data) |-> Len(chunk_data[i].entries) ])

\* ProcessorRegistry._write_intermediate_results: the output file is opened
\* with mode 'w' for the first part of the frame it writes
write_intermediate_results(csv, all_dfs, combined) ==
    IF combined
    THEN LET rows == Flatten(Flatten([ i \in 1..Len(all_dfs) |-> all_dfs[i].dfs ]))
         IN  IF Len(all_dfs) > 0 THEN ("combined_results" :> rows) @@ csv ELSE csv
    ELSE LET names == { safe_name(all_dfs[i].file_type) : i \in 1..Len(all_dfs) }
             rowsOf(nm) ==
                 LET i == CHOOSE j \in 1..Len(all_dfs) :
                            safe_name(all_dfs[j].file_type) = nm
                                /\ \A k \in (j + 1)..Len(all_dfs) : safe_name(all_dfs[k].file_type) # nm
                 IN  Flatten(all_dfs[i].dfs)
         IN  [ nm \in names \cup DOMAIN csv |-> IF nm \in names THEN rowsOf(nm) ELSE csv[nm] ]

\* the loop of write_results_to_csv over the sorted chunk files
RECURSIVE ConsumeChunks(_, _, _, _)
ConsumeChunks(files, st, combined, unreadable) ==
    IF files = <<>> THEN st
    ELSE LET n == Head(files)
             ld == pickle_load(st.disk, n, unreadable)
             all1 == ExtendAll(st.all_dfs, ld.data)
             size1 == st.size + CountDfs(ld.data)
             flush == size1 >= max_chunk_size
             st1 == IF ld.raised
                    THEN [st EXCEPT !.failed = @ \cup {n}]
                    ELSE [ all_dfs |-> IF flush THEN <<>> ELSE all1,
                           size    |-> IF flush THEN 0 ELSE size1,
                           csv     |-> IF flush
                                       THEN write_intermediate_results(st.csv, all1, combined)
                                       ELSE st.csv,
                           disk    |-> [ k \in DOMAIN st.disk \ {n} |-> st.disk[k] ],
                           failed  |-> st.failed ]
         IN  ConsumeChunks(Tail(files), st1, combined, unreadable)

\* variant: the chunk directory is left in place
rmtree_skipped(r) == r

\* the clean-up of write_results_to_csv: shutil.rmtree(self._chunk_dir) when
\* the directory exists
rmtree(r) ==
    IF r.chunk_dir = "present" THEN [r EXCEPT !.disk = <<>>, !.chunk_dir = "removed"] ELSE r

\* ProcessorRegistry.write_results_to_csv.  failed is the set of chunk files
\* whose load raised inside the loop, consumed the chunk files in the order
\* of the loop.
write_results_to_csv(r, combined, unreadable) ==
    IF r.chunk_dir = "unset"
    THEN [reg |-> r, raised |-> TRUE, failed |-> {}, consumed |-> <<>>]
    ELSE
        LET chunk_files == sorted(IF r.chunk_dir = "present" THEN ChunkFiles(r) ELSE {})
            st0 == [all_dfs |-> <<>>, size |-> 0, csv |-> r.csv, disk |-> r.disk, failed |-> {}]
            st == ConsumeChunks(chunk_files, st0, combined, unreadable)
            csv1 == IF st.size > 0
                    THEN write_intermediate_results(st.csv, st.all_dfs, combined)
                    ELSE st.csv
        IN  [ reg |-> rmtree([r EXCEPT !.csv = csv1, !.disk = st.disk]),
              raised |-> FALSE,
              failed |-> st.failed,
              consumed |-> chunk_files ]

\* ------------------------------------------------------------ the inputs
\* what happens to the file when process_file handles it: the extractor
\* returns a valid result, reports a syntax error, raises; the file is gone
\* before the call; the file goes between the existence test and getsize
Outcomes == { "ok", "syntax_error", "raise", "vanished", "race" }

WriteOutcomes == { "ok", "fail" }

\* the file system can fail a chunk write only where one is attempted
Inputs == { <<o, w>> \in Outcomes \X WriteOutcomes : w = "fail" => o = "ok" }

\* the path strings of direct process_file calls: a.py by a relative path
\* (the walk reaches it by an absolute one), and the link l.py to it
CallPaths == { Path(FALSE, <<A_py>>), Path(TRUE, <<L_py>>) }

\* the ignore_dirs arguments of process_directory
IgnoreInputs == { {}, {D_src} }

\* chunk size of the second registry of the comparison: larger than the
\* number of files of the tree
BigChunkSize == Cardinality(AllFiles) + 1

\* ------------------------------------------------------------- the state
VARIABLES
    reg,        \* the registry, its processors and the files it wrote
    reg2,       \* a second registry, used by the chunk-size comparison
    pc,         \* "idle", or the position of process_directory
    walk,       \* the paths process_directory has still to handle
    enumerated, \* the paths the current walk enumerates
    attempted,  \* the paths the current walk has handed to process_file
    walk_ignore,\* the ignore_dirs argument of the current walk
    failed_seen,\* some file of the current walk raised, had errors or was gone
    ncalls,     \* direct process_file calls made
    last        \* the last operation and how it ended

vars == <<reg, reg2, pc, walk, enumerated, attempted, walk_ignore, failed_seen, ncalls, last>>

\* the record of the last operation: errors tells whether the extractor's
\* result carried errors, account is the collection of process_directory the
\* file went to, proc the processor an operation was given or returned,
\* consumed the chunk files in the order materialization took them
Op(op, path, ret, raised, invoked, write_failed, failed) ==
    [ op |-> op, path |-> path, ret |-> ret, raised |-> raised, invoked |-> invoked,
      write_failed |-> write_failed, failed |-> failed, unreadable |-> {},
      errors |-> FALSE, account |-> None, proc |-> None, consumed |-> <<>> ]

\* a failure at file granularity: process_file raised, the extractor raised
\* or reported errors, or the file was gone
Failed(pf, outcome) == pf.raised \/ outcome \in { "syntax_error", "raise", "vanished", "race" }

NoPath == Path(TRUE, <<>>)

Init ==
    /\ reg = NewRegistry
    /\ reg2 = NewRegistry
    /\ pc = "idle"
    /\ walk = <<>>
    /\ enumerated = <<>>
    /\ attempted = <<>>
    /\ walk_ignore = {}
    /\ failed_seen = FALSE
    /\ ncalls = 0
    /\ last = Op("init", NoPath, None, FALSE, FALSE, FALSE, {})

\* --------------------------------------------------------------- actions
\* the registry is configured before the first file is processed
InSetup == pc = "idle" /\ ncalls = 0 /\ reg.chunk_dir # "removed"

RegisterProcessor(proc) ==
    /\ InSetup
    /\ reg' = register_processor(reg, proc)
    /\ last' = [Op("register_processor", NoPath, None, FALSE, FALSE, FALSE, {})
                   EXCEPT !.proc = proc]
    /\ UNCHANGED <<reg2, pc, walk, enumerated, attempted, walk_ignore, failed_seen, ncalls>>

SetOutputDir ==
    /\ InSetup
    /\ reg' = set_output_dir(reg)
    /\ last' = Op("set_output_dir", NoPath, None, FALSE, FALSE, FALSE, {})
    /\ UNCHANGED <<reg2, pc, walk, enumerated, attempted, walk_ignore, failed_seen, ncalls>>

SetChunkSize(size) ==
    /\ InSetup
    /\ reg' = set_chunk_size(reg, size)
    /\ last' = Op("set_chunk_size", NoPath, None, size < 1, FALSE, FALSE, {})
    /\ UNCHANGED <<reg2, pc, walk, enumerated, attempted, walk_ignore, failed_seen, ncalls>>

\* a direct call of process_file
ProcessFileCall(p, outcome, wr) ==
    /\ pc # "walking"
    /\ ncalls < MaxCalls
    /\ LET pf == process_file(reg, p, outcome, wr)
       IN  /\ reg' = pf.reg
           /\ last' = [Op("process_file", p, pf.ret, pf.raised, pf.invoked, pf.write_failed, {})
                          EXCEPT !.errors = pf.errors]
    /\ ncalls' = ncalls + 1
    /\ UNCHANGED <<reg2, pc, walk, enumerated, attempted, walk_ignore, failed_seen>>

\* process_directory up to the first file of its loop
ProcessDirectoryStart(ignore_dirs) ==
    /\ pc = "idle"
    /\ pc' = "walking"
    /\ walk' = WalkPaths(TRUE, ignore_dirs)
    /\ enumerated' = WalkPaths(TRUE, ignore_dirs)
    /\ attempted' = <<>>
    /\ walk_ignore' = ignore_dirs
    /\ failed_seen' = FALSE
    /\ last' = Op("process_directory", NoPath, None, FALSE, FALSE, FALSE, {})
    /\ UNCHANGED <<reg, reg2, ncalls>>

\* variant: an exception of process_file leaves the loop
LoopAfter_uncaught(pf) == IF pf.raised THEN "aborted" ELSE "walking"

\* what the loop body of process_directory does with what process_file
\* returned or raised: an exception is logged and the loop goes on
LoopAfter(pf) == IF pf.raised THEN "walking" ELSE "walking"

\* the collection the loop body of process_directory puts the file in: the
\* results when process_file returned a result, unprocessed_files when it
\* returned None or raised
account(pf) == IF ~pf.raised /\ pf.ret # None THEN "results" ELSE "unprocessed_files"

\* one iteration of the loop of process_directory
ProcessDirectoryStep(outcome, wr) ==
    /\ pc = "walking"
    /\ walk # <<>>
    /\ LET p == Head(walk)
           pf == process_file(reg, p, outcome, wr)
       IN  /\ reg' = pf.reg
           /\ pc' = LoopAfter(pf)
           /\ last' = [Op("step", p, pf.ret, pf.raised, pf.invoked, pf.write_failed, {})
                          EXCEPT !.errors = pf.errors, !.account = account(pf)]
           /\ attempted' = Append(attempted, p)
           /\ failed_seen' = (failed_seen \/ Failed(pf, outcome))
    /\ walk' = Tail(walk)
    /\ UNCHANGED <<reg2, enumerated, walk_ignore, ncalls>>

\* the loop is over and process_directory returns its results
ProcessDirectoryReturn ==
    /\ pc = "walking"
    /\ walk = <<>>
    /\ pc' = "returned"
    /\ last' = Op("return", NoPath, None, FALSE, FALSE, FALSE, {})
    /\ UNCHANGED <<reg, reg2, walk, enumerated, attempted, walk_ignore, failed_seen, ncalls>>

\* the caller stops the walk (an interrupt ends process_directory)
Cancel ==
    /\ pc = "walking"
    /\ walk # <<>>
    /\ pc' = "cancelled"
    /\ walk' = <<>>
    /\ last' = Op("cancel", NoPath, None, TRUE, FALSE, FALSE, {})
    /\ UNCHANGED <<reg, reg2, enumerated, attempted, walk_ignore, failed_seen, ncalls>>

WriteResultsToCsv(combined, unreadable) ==
    /\ pc # "walking"
    /\ unreadable \subseteq ChunkFiles(reg)
    /\ LET w == write_results_to_csv(reg, combined, unreadable)
       IN  /\ reg' = w.reg
           /\ last' = [Op("write_results_to_csv", NoPath, None, w.raised, FALSE, FALSE, w.failed)
                          EXCEPT !.unreadable = unreadable, !.consumed = w.consumed]
    /\ UNCHANGED <<reg2, pc, walk, enumerated, attempted, walk_ignore, failed_seen, ncalls>>

\* the sets of chunk files the file system may fail to open: none, or one
Unreadables == { {} } \cup { {n} : n \in ChunkFiles(reg) }

Next ==
    \/ \E proc \in Processors : RegisterProcessor(proc)
    \/ SetOutputDir
    \/ \E size \in 0..MaxChunkSize : SetChunkSize(size)
    \/ \E p \in CallPaths, in \in Inputs : ProcessFileCall(p, in[1], in[2])
    \/ \E ignore_dirs \in IgnoreInputs : ProcessDirectoryStart(ignore_dirs)
    \/ \E in \in Inputs : ProcessDirectoryStep(in[1], in[2])
    \/ ProcessDirectoryReturn
    \/ Cancel
    \/ \E combined \in BOOLEAN, unreadable \in Unreadables :
          WriteResultsToCsv(combined, unreadable)

Spec == Init /\ [][Next]_vars

\* ------------------------------------------- the chunk-size comparison
\* Two registries are configured alike except for the chunk size (1 and
\* BigChunkSize) and run process_directory and write_results_to_csv over the
\* same files with the same extractor results; no chunk write or read is
\* failed by the file system.
Configured(size) ==
    set_chunk_size(
        set_output_dir(
            register_processor(register_processor(NewRegistry, "PythonProcessor"),
                               "JavaScriptProcessor")),
        size)

PairSetup ==
    /\ pc = "idle"
    /\ reg = NewRegistry
    /\ reg' = Configured(1)
    /\ reg2' = Configured(BigChunkSize)
    /\ pc' = "pair_ready"
    /\ last' = Op("pair_setup", NoPath, None, FALSE, FALSE, FALSE, {})
    /\ UNCHANGED <<walk, enumerated, attempted, walk_ignore, failed_seen, ncalls>>

PairStart(ignore_dirs) ==
    /\ pc = "pair_ready"
    /\ pc' = "pair_walking"
    /\ walk' = WalkPaths(TRUE, ignore_dirs)
    /\ enumerated' = WalkPaths(TRUE, ignore_dirs)
    /\ attempted' = <<>>
    /\ walk_ignore' = ignore_dirs
    /\ failed_seen' = FALSE
    /\ last' = Op("pair_process_directory", NoPath, None, FALSE, FALSE, FALSE, {})
    /\ UNCHANGED <<reg, reg2, ncalls>>

PairStep(outcome) ==
    /\ pc = "pair_walking"
    /\ walk # <<>>
    /\ LET p == Head(walk)
           pf == process_file(reg, p, outcome, "ok")
           pf2 == process_file(reg2, p, outcome, "ok")
       IN  /\ reg' = pf.reg
           /\ reg2' = pf2.reg
           /\ last' = Op("pair_step", p, pf.ret, pf.raised, pf.invoked, pf.write_failed, {})
           /\ attempted' = Append(attempted, p)
           /\ failed_seen' = (failed_seen \/ Failed(pf, outcome))
    /\ walk' = Tail(walk)
    /\ UNCHANGED <<pc, enumerated, walk_ignore, ncalls>>

PairReturn ==
    /\ pc = "pair_walking"
    /\ walk = <<>>
    /\ pc' = "pair_returned"
    /\ last' = Op("pair_return", NoPath, None, FALSE, FALSE, FALSE, {})
    /\ UNCHANGED <<reg, reg2, walk, enumerated, attempted, walk_ignore, failed_seen, ncalls>>

PairWrite(combined) ==
    /\ pc = "pair_returned"
    /\ LET w == write_results_to_csv(reg, combined, {})
           w2 == write_results_to_csv(reg2, combined, {})
       IN  /\ reg' = w.reg
           /\ reg2' = w2.reg
           /\ last' = Op("pair_write", NoPath, None, w.raised, FALSE, FALSE, w.failed)
    /\ pc' = "pair_done"
    /\ UNCHANGED <<walk, enumerated, attempted, walk_ignore, failed_seen, ncalls>>

PairNext ==
    \/ PairSetup
    \/ \E ignore_dirs \in IgnoreInputs : PairStart(ignore_dirs)
    \/ \E outcome \in Outcomes : PairStep(outcome)
    \/ PairReturn
    \/ \E combined \in BOOLEAN : PairWrite(combined)

PairSpec == Init /\ [][PairNext]_vars

\* --------------------------------------------- registration and dispatch
\* Processor instances are registered in any order (a second PythonProcessor
\* and a ShellProcessor among them), get_processor is called at any time, and
\* process_file is called on a Python, a JavaScript, a shell and a text file.
DispatchPaths ==
    { Path(TRUE, <<A_py>>), Path(TRUE, <<Notes_txt>>), Path(TRUE, <<D_src, C_js>>),
      Path(TRUE, <<D_venv, S_sh>>) }

\* a call of get_processor
GetProcessor(p) ==
    /\ pc = "idle"
    /\ reg' = get_processor_state(reg, p)
    /\ last' = [Op("get_processor", p, get_processor(reg, p), FALSE, FALSE, FALSE, {})
                   EXCEPT !.proc = get_processor(reg, p)]
    /\ UNCHANGED <<reg2, pc, walk, enumerated, attempted, walk_ignore, failed_seen, ncalls>>

RegistryNext ==
    \/ \E proc \in Instances : RegisterProcessor(proc)
    \/ \E p \in DispatchPaths : GetProcessor(p)
    \/ \E p \in DispatchPaths, outcome \in Outcomes : ProcessFileCall(p, outcome, "ok")

RegistrySpec == Init /\ [][RegistryNext]_vars

\* ------------------------------------------------- a run of many chunks
\* A registry configured with chunk size 1 is handed the files of
\* node_modules/ one after the other, so that every valid file is spilled
\* to a chunk file of its own, and the results are materialized.
ModulePath(i) == Path(TRUE, <<D_node, ModuleNames[i]>>)

OrderSetup ==
    /\ pc = "idle"
    /\ reg = NewRegistry
    /\ reg' = Configured(1)
    /\ pc' = "order_ready"
    /\ last' = Op("order_setup", NoPath, None, FALSE, FALSE, FALSE, {})
    /\ UNCHANGED <<reg2, walk, enumerated, attempted, walk_ignore, failed_seen, ncalls>>

OrderProcessFile(outcome) ==
    /\ pc = "order_ready"
    /\ ncalls < MaxModules
    /\ LET p == ModulePath(ncalls + 1)
           pf == process_file(reg, p, outcome, "ok")
       IN  /\ reg' = pf.reg
           /\ last' = [Op("process_file", p, pf.ret, pf.raised, pf.invoked, pf.write_failed, {})
                          EXCEPT !.errors = pf.errors]
    /\ ncalls' = ncalls + 1
    /\ UNCHANGED <<reg2, pc, walk, enumerated, attempted, walk_ignore, failed_seen>>

OrderNext ==
    \/ OrderSetup
    \/ \E outcome \in {"ok", "syntax_error"} : OrderProcessFile(outcome)
    \/ \E combined \in BOOLEAN : pc = "order_ready" /\ WriteResultsToCsv(combined, {})

OrderSpec == Init /\ [][OrderNext]_vars

\* ------------------------------------------------------- table segments
\* The segment writer of materialization, _write_intermediate_results, is
\* called more than once for one output directory, as write_results_to_csv
\* does once its buffer has reached max_chunk_size.
Frame(segs) == RecordsOf(Path(TRUE, segs))

PyFrames == { <<Frame(<<A_py>>)>>, <<Frame(<<D_src, B_py>>)>>,
              <<Frame(<<A_py>>), Frame(<<D_src, B_py>>)>> }

JsFrames == { <<Frame(<<D_src, C_js>>)>> }

\* the buffers all_dfs handed to the segment writer: the frames of one or of
\* two content types, in either order of the keys
SegmentInputs ==
    LET py == { [file_type |-> "text/x-python", dfs |-> d] : d \in PyFrames }
        js == { [file_type |-> "application/javascript", dfs |-> d] : d \in JsFrames }
    IN  { <<g>> : g \in py \cup js }
            \cup { <<g, h>> : g \in py, h \in js }
            \cup { <<h, g>> : g \in py, h \in js }

WriteIntermediateResults(all_dfs, combined) ==
    /\ pc = "idle"
    /\ ncalls < MaxSegments
    /\ reg' = [reg EXCEPT !.csv = write_intermediate_results(reg.csv, all_dfs, combined)]
    /\ ncalls' = ncalls + 1
    /\ last' = Op("write_intermediate_results", NoPath, None, FALSE, FALSE, FALSE, {})
    /\ UNCHANGED <<reg2, pc, walk, enumerated, attempted, walk_ignore, failed_seen>>

SegmentNext ==
    \E all_dfs \in SegmentInputs, combined \in BOOLEAN :
        WriteIntermediateResults(all_dfs, combined)

SegmentSpec == Init /\ [][SegmentNext]_vars

\* ------------------------------------------------- extractors called alone
\* Each extractor is called directly, as its tests do, on files of valid and
\* of malformed content; one instance keeps its frame from call to call.
MaxExtractions == 2

\* the contents a format's reader rejects as malformed: the shell extractor
\* reads by regular expressions and has no notion of a malformed script,
\* the Markdown and JavaScript extractors validate the balance of constructs
Rejected(class) ==
    CASE class = "ShellProcessor" -> {}
      [] class \in {"MarkdownProcessor", "JavaScriptProcessor"} -> {"syntax_error"}
      [] OTHER -> {"syntax_error", "bad_character"}

ExtractCall(proc, p, doc) ==
    /\ pc = "idle"
    /\ ncalls < MaxExtractions
    /\ LET run == ExtractorProcessFile(ClassOf(proc), reg.procs[proc], p, doc)
       IN  /\ reg' = [reg EXCEPT !.procs[proc] = run.state]
           /\ last' = ( [Op("extract", p, IF run.raised THEN None ELSE "result",
                             run.raised, TRUE, FALSE, {})
                            EXCEPT !.errors = run.errors, !.proc = proc]
                        @@ [records |-> run.records, doc |-> doc,
                            before |-> reg.procs[proc].results_df] )
    /\ ncalls' = ncalls + 1
    /\ UNCHANGED <<reg2, pc, walk, enumerated, attempted, walk_ignore, failed_seen>>

ExtractorNext ==
    \E proc \in Extractors, p \in CallPaths, doc \in Documents :
        /\ doc.syntax \in {"valid"} \cup Rejected(ClassOf(proc))
        /\ ExtractCall(proc, p, doc)

ExtractorSpec == Init /\ [][ExtractorNext]_vars

\* ------------------------------------------------ detection and dispatch
\* Files of particular names, sizes and contents, a directory and a path
\* that does not exist are classified by both detectors, dispatched and
\* processed by a registry holding any of the extractors.
DetectPaths ==
    { Path(TRUE, <<D_venv, f>>) :
        f \in { G_PY, Empty_js, Bin_py, Nb_json, R_markdown, Data_bin } }
        \cup { Path(TRUE, <<D_src>>), Path(TRUE, <<Gone_py>>) }

DetectInstances ==
    { "PythonProcessor", "JavaScriptProcessor", "JSONProcessor", "JupyterProcessor",
      "MarkdownProcessor" }

\* the outcomes a file's content allows: a file of garbage does not parse
Applicable(p, outcome) == realpath(p).segs = <<D_venv, Bin_py>> => outcome # "ok"

\* a call of the registry's detector
DetectType(p) ==
    /\ pc = "idle"
    /\ last' = Op("detect_type", p, detect_type(p), FALSE, FALSE, FALSE, {})
    /\ UNCHANGED <<reg, reg2, pc, walk, enumerated, attempted, walk_ignore, failed_seen, ncalls>>

\* a call of the detector of file_type_detector.py
StandaloneDetectType(p, dir_sniff) ==
    /\ pc = "idle"
    /\ LET d == standalone_detect_type(p, dir_sniff)
       IN  last' = Op("standalone_detect_type", p, d.type, d.raised, FALSE, FALSE, {})
    /\ UNCHANGED <<reg, reg2, pc, walk, enumerated, attempted, walk_ignore, failed_seen, ncalls>>

DetectNext ==
    \/ \E proc \in DetectInstances : RegisterProcessor(proc)
    \/ \E p \in DetectPaths : DetectType(p)
    \/ \E p \in DetectPaths, dir_sniff \in DirectorySniffs : StandaloneDetectType(p, dir_sniff)
    \/ \E p \in DetectPaths : GetProcessor(p)
    \/ \E p \in DetectPaths, outcome \in Outcomes :
          Applicable(p, outcome) /\ ProcessFileCall(p, outcome, "ok")

DetectSpec == Init /\ [][DetectNext]_vars

\* ------------------------------------------------------------ the flushes
\* A configured registry is handed the files of node_modules/ one after the
\* other, each chunk write succeeding or failing, and _write_chunk is also
\* called on its own, on an empty chunk as on a filled one.
MaxFlushFiles == 3

FlushSetup(size) ==
    /\ pc = "idle"
    /\ reg = NewRegistry
    /\ reg' = Configured(size)
    /\ pc' = "flush_ready"
    /\ last' = Op("flush_setup", NoPath, None, FALSE, FALSE, FALSE, {})
    /\ UNCHANGED <<reg2, walk, enumerated, attempted, walk_ignore, failed_seen, ncalls>>

FlushProcessFile(outcome, wr) ==
    /\ pc = "flush_ready"
    /\ ncalls < MaxFlushFiles
    /\ LET p == ModulePath(ncalls + 1)
           pf == process_file(reg, p, outcome, wr)
       IN  /\ reg' = pf.reg
           /\ last' = [Op("process_file", p, pf.ret, pf.raised, pf.invoked, pf.write_failed, {})
                          EXCEPT !.errors = pf.errors]
    /\ ncalls' = ncalls + 1
    /\ UNCHANGED <<reg2, pc, walk, enumerated, attempted, walk_ignore, failed_seen>>

\* a call of _write_chunk
WriteChunk(wr) ==
    /\ pc = "flush_ready"
    /\ LET w == write_chunk(reg, wr)
       IN  /\ reg' = w.reg
           /\ last' = Op("write_chunk", NoPath, None, w.raised, FALSE, w.raised, {})
    /\ UNCHANGED <<reg2, pc, walk, enumerated, attempted, walk_ignore, failed_seen, ncalls>>

FlushNext ==
    \/ \E size \in 1..MaxChunkSize : FlushSetup(size)
    \/ \E in \in Inputs : FlushProcessFile(in[1], in[2])
    \/ \E wr \in WriteOutcomes : WriteChunk(wr)

FlushSpec == Init /\ [][FlushNext]_vars

\* ------------------------------------------------------------ properties
EntriesOf(chunk) == Flatten([ i \in 1..Len(chunk) |-> chunk[i].entries ])

\* the entries of the in-memory chunk and of every spilled chunk file
AllEntries(r) ==
    EntriesOf(r.current_chunk)
        \o Flatten([ i \in 1..Len(sorted(ChunkFiles(r))) |-> EntriesOf(r.disk[sorted(ChunkFiles(r))[i]]) ])

\* the entries appended for the file of absolute path q
EntriesFor(r, q) == SelectSeq(AllEntries(r), LAMBDA e : e.path = q)

AbsPaths == { Path(TRUE, f) : f \in AllFiles }

\* C1: each absolute path has at most one entry among the in-memory chunk
\* and all spilled chunk files
C1_AtMostOneEntryPerPath ==
    \A q \in AbsPaths : Len(EntriesFor(reg, q)) <= 1

OutputRows(csv) == UNION { Range(csv[nm]) : nm \in DOMAIN csv }

\* the rows held by the entries of a chunk
ChunkRows(chunk) ==
    UNION { Range(EntriesOf(chunk)[i].data) : i \in 1..Len(EntriesOf(chunk)) }

\* write_results_to_csv ran to its end in this step
Materialized == last'.op = "write_results_to_csv" /\ ~last'.raised

\* C3: write_results_to_csv first flushes the remaining in-memory chunk, so
\* every file accumulated since the last flush appears in the output
C3_RemainingChunkMaterialized ==
    [][ Materialized =>
            /\ reg'.current_chunk = <<>>
            /\ ChunkRows(reg.current_chunk) \subseteq OutputRows(reg'.csv) ]_vars

\* a process_file call returned in this step, no chunk write having failed
ProcessFileReturned ==
    last'.op \in {"process_file", "step"} /\ ~last'.raised /\ ~last'.write_failed

\* C4: whenever a process_file call returns, the in-memory chunk holds
\* fewer file entries than the chunk size (stated for a call that starts
\* below the chunk size and in which no chunk write fails)
C4_EntriesBelowChunkSize ==
    [][ (ProcessFileReturned /\ Len(EntriesOf(reg.current_chunk)) < reg.chunk_size)
            => Len(EntriesOf(reg'.current_chunk)) < reg'.chunk_size ]_vars

\* rows with their multiplicity
RowCount(rows, x) == Len(SelectSeq(rows, LAMBDA y : y = x))

SameRows(a, b) == \A x \in Range(a) \cup Range(b) : RowCount(a, x) = RowCount(b, x)

\* the rows spilled to the chunk files, in the order of the files
SpilledRows(r) ==
    Flatten([ i \in 1..Len(sorted(ChunkFiles(r))) |->
                Flatten(DataFrames(EntriesOf(r.disk[sorted(ChunkFiles(r))[i]]))) ])

\* C5: the records read back from the chunk files during
\* write_results_to_csv are exactly the records that were spilled to them
\* (here: the first materialization, combined, the file system failing no
\* read)
C5_ChunkRoundTrip ==
    [][ ( /\ Materialized
          /\ last'.unreadable = {}
          /\ reg.chunk_dir = "present"
          /\ reg.csv = <<>>
          /\ ChunkFiles(reg) # {} )
        => /\ last'.failed = {}
           /\ "combined_results" \in DOMAIN reg'.csv
                => SameRows(reg'.csv["combined_results"], SpilledRows(reg))
           /\ OutputRows(reg'.csv) = Range(SpilledRows(reg)) ]_vars

MatchesIgnore(d, ignore_dirs) ==
    \/ d \in exact_ignores(ignore_dirs)
    \/ \E g \in glob_patterns(ignore_dirs) : fnmatch(d, g)

\* the file lies under a directory that matches an ignore pattern
UnderIgnored(segs, ignore_dirs) ==
    \E i \in 1..(Len(segs) - 1) : MatchesIgnore(segs[i], ignore_dirs)

\* C7: process_directory never processes a file located under a directory
\* that matches an ignore pattern (exact name or glob, at any depth)
C7_IgnoredDirsPruned ==
    \A i \in 1..Len(attempted) : ~UnderIgnored(attempted[i].segs, walk_ignore)

\* C8: a failure at file granularity never aborts the run: every file the
\* walk enumerates is attempted, in order, whatever happened to earlier
\* files, and process_directory returns normally
C8_FileFailureNeverAborts ==
    /\ pc # "aborted"
    /\ pc \in {"walking", "returned"} => IsPrefix(attempted, enumerated)
    /\ pc = "walking" => attempted \o walk = enumerated
    /\ pc = "returned" => attempted = enumerated

\* process_directory returned after a walk in which a file failed and the
\* last file was still attempted
C8_Witness ==
    /\ pc = "returned"
    /\ failed_seen
    /\ Len(attempted) >= 4
    /\ last.op = "return"

\* C9: a storage failure is fatal to the run: a failed chunk write or a
\* failed chunk read stops the run with an error (stated with the chunk
\* directory in place, so that the failure is one of the storage)
C9_StorageFailureFatal ==
    /\ (last.op = "step" /\ last.write_failed /\ reg.chunk_dir = "present") => pc = "aborted"
    /\ (last.op = "process_file" /\ last.write_failed /\ reg.chunk_dir = "present") => last.raised
    /\ (last.op = "write_results_to_csv" /\ last.failed # {}) => last.raised

\* the path string of the call reaches a file whose canonical path is
\* already in the ledger
AlreadyProcessed == realpath(last'.path) \in { realpath(q) : q \in reg.processed_files }

\* C10: a file reached through a second path string (relative or absolute,
\* a link or its target) is skipped: the extractor is not run again and
\* nothing is accumulated for it
C10_CanonicalDedup ==
    [][ (last'.op \in {"process_file", "step"} /\ AlreadyProcessed)
            => (~last'.invoked /\ reg'.current_chunk = reg.current_chunk /\ reg'.disk = reg.disk) ]_vars

\* a process_file call ended in this step with a result that carries errors
ErrorResult == last'.op \in {"process_file", "step"} /\ last'.errors

\* C11: a file whose extractor result carries errors is not accumulated,
\* and its absolute path is in the ledger when process_file returns
C11_ErrorFileMarkedProcessed ==
    [][ ErrorResult =>
            /\ reg'.current_chunk = reg.current_chunk
            /\ reg'.disk = reg.disk
            /\ abspath(last'.path) \in reg'.processed_files ]_vars

\* C12: for every result type, the shell-script result included, a file
\* whose extractor result has errors is never appended to a chunk
C12_ErrorResultNeverAppended ==
    [][ ErrorResult =>
            /\ reg'.current_chunk = reg.current_chunk
            /\ reg'.disk = reg.disk ]_vars

\* what process_file hands the loop of process_directory for a file that
\* failed: an exception, None (the extractor raised, a chunk write failed),
\* or a result that carries errors
FailedReturns ==
    { [raised |-> TRUE, ret |-> None], [raised |-> FALSE, ret |-> None],
      [raised |-> FALSE, ret |-> "result"] }

\* the last file of the walk has a content type without a processor
StepSkipped ==
    last.op = "step" /\ ~last.raised /\ get_processor(reg, last.path) = None

\* C13: a file whose content type has no registered processor is not handed
\* to an extractor, changes nothing, and is accounted apart from the files
\* that failed
C13_UnsupportedSkippedNotFailed ==
    StepSkipped =>
        /\ ~last.invoked
        /\ last.ret = None
        /\ last.account \notin { account(f) : f \in FailedReturns }

\* the chunk files in the order of their creation (their numbers)
RECURSIVE CreationOrder(_)
CreationOrder(S) ==
    IF S = {} THEN <<>>
    ELSE LET m == CHOOSE x \in S : \A y \in S : x <= y
         IN  <<m>> \o CreationOrder(S \ {m})

\* the rows of the chunk files in production order: chunk by chunk in
\* creation order, entry by entry, row by row
ProducedRows(r) ==
    Flatten([ i \in 1..Len(CreationOrder(ChunkFiles(r))) |->
                Flatten(DataFrames(EntriesOf(r.disk[CreationOrder(ChunkFiles(r))[i]]))) ])

\* C14: materialization consumes the chunk files in creation order, for any
\* number of chunks, and the combined output holds the rows in production
\* order
C14_ProductionOrderKept ==
    [][ Materialized =>
            /\ last'.consumed = CreationOrder(ChunkFiles(reg))
            /\ ("combined_results" \in DOMAIN reg'.csv /\ reg.csv = <<>>)
                    => reg'.csv["combined_results"] = ProducedRows(reg) ]_vars

\* C15: a table segment written after the first is appended to the output
\* file: the rows an earlier segment wrote are still there, before the new
\* ones
C15_LaterSegmentsAppended ==
    [][ last'.op = "write_intermediate_results" =>
            \A nm \in DOMAIN reg.csv :
                nm \in DOMAIN reg'.csv /\ IsPrefix(reg.csv[nm], reg'.csv[nm]) ]_vars

\* C16: the ledger and the in-memory chunk are torn down at
\* materialization: both are empty when write_results_to_csv has completed
C16_RunStateTornDown ==
    [][ Materialized =>
            /\ reg'.processed_files = {}
            /\ reg'.current_chunk = <<>> ]_vars

DeclaredTypes(r) == UNION { get_supported_types(q) : q \in r.unique_processors }

\* C18: after a register_processor call the processor just registered is
\* the one mapped to, and dispatched for, every type it declares, whatever
\* was registered before; the other types keep their processor, and each
\* declared type is mapped to exactly one processor
C18_LastRegistrationWins ==
    [][ last'.op = "register_processor" =>
            /\ \A t \in get_supported_types(last'.proc) : reg'.processors[t] = last'.proc
            /\ \A t \in DOMAIN reg.processors \ get_supported_types(last'.proc) :
                    reg'.processors[t] = reg.processors[t]
            /\ DOMAIN reg'.processors = DeclaredTypes(reg')
            /\ \A p \in DispatchPaths :
                    detect_type(p) \in get_supported_types(last'.proc)
                        => get_processor(reg', p) = last'.proc ]_vars

\* a second PythonProcessor has been registered over the first
C18_Witness ==
    /\ last.op = "register_processor"
    /\ last.proc = "PythonProcessor_2"
    /\ "PythonProcessor" \in reg.unique_processors
    /\ get_processor(reg, Path(TRUE, <<A_py>>)) = "PythonProcessor_2"

\* C19: a get_processor call leaves the type map, the set of registered
\* processors, the ledger, the in-memory chunk and the chunk counter
\* unchanged
C19_DispatchReadOnly ==
    [][ last'.op = "get_processor" =>
            /\ reg'.processors = reg.processors
            /\ reg'.unique_processors = reg.unique_processors
            /\ reg'.processed_files = reg.processed_files
            /\ reg'.current_chunk = reg.current_chunk
            /\ reg'.chunk_counter = reg.chunk_counter ]_vars

\* get_processor was called for a file without processor after a file had
\* been processed and accumulated
C19_Witness ==
    /\ last.op = "get_processor"
    /\ last.proc = None
    /\ reg.processed_files # {}
    /\ reg.current_chunk # <<>>
    /\ reg.processors # <<>>

\* the records a processor added to its frame in this step
Produced(q) ==
    SubSeq(reg'.procs[q].results_df, Len(reg.procs[q].results_df) + 1,
           Len(reg'.procs[q].results_df))

\* C20: the records an extractor produces for one file have strictly
\* increasing order values, counted from the reset of the counter
C20_OrderStrictlyIncreasing ==
    [][ \A q \in Instances :
            ( /\ last'.op \in {"process_file", "step"}
              /\ IsPrefix(reg.procs[q].results_df, reg'.procs[q].results_df)
              /\ Produced(q) # <<>> )
            => /\ Produced(q)[1].order = order_counter_reset + 1
               /\ \A i, j \in 1..Len(Produced(q)) :
                      i < j => Produced(q)[i].order < Produced(q)[j].order ]_vars

Extracted == last.op = "extract"

\* C21: every record an extractor produces carries a filepath that is not
\* null and names the file the extractor was given (as given or absolute).
C21_RecordsCarryFilepath ==
    Extracted =>
        \A i \in 1..Len(last.records) :
            /\ "filepath" \in DOMAIN last.records[i]
            /\ last.records[i].filepath \in { last.path, abspath(last.path) }

\* C22: in the records of the Python extractor, parent_path is empty for a
\* top-level definition and is otherwise the path of an enclosing definition
\* recorded earlier in the file: the parent_path of that record followed by
\* its name.  A record's own name is not the end of its parent_path.
C22_ParentPathOfEnclosing ==
    (Extracted /\ ClassOf(last.proc) = "PythonProcessor") =>
        \A i \in 1..Len(last.records) :
            \/ last.records[i].parent_path = <<>>
            \/ \E j \in 1..(i - 1) :
                  last.records[i].parent_path
                      = Append(last.records[j].parent_path, last.records[j].name)

\* C23: an extractor handed malformed content does not raise and returns a
\* result with at least one error.
C23_MalformedNeverRaises ==
    (Extracted /\ last.doc.syntax # "valid") => (~last.raised /\ last.errors)

\* C26: the order column of the frame one JSONProcessor accumulates never
\* decreases from a row to the next, and a valid file adds exactly one row
\* per element.
C26_JsonOrderMonotone ==
    LET df == reg.procs["JSONProcessor"].results_df
    IN  /\ \A i \in 1..Len(df), j \in 1..Len(df) : i < j => df[i].order <= df[j].order
        /\ (Extracted /\ last.proc = "JSONProcessor" /\ last.doc.syntax = "valid") =>
               Len(df) = Len(last.before) + Len(to_csv(last.doc))

\* a directory, or a path that does not exist
NoRegularFile(p) == isdir(p) \/ ~exists(p)

\* C24: for a directory or a non-existent path no classification raises:
\* both detectors return the empty type, get_processor returns None, and
\* process_file returns None without running an extractor and leaves the
\* path out of the ledger and of the chunk.
C24_NoRegularFileNeverRaises ==
    NoRegularFile(last.path) =>
        /\ ~last.raised
        /\ last.op \in {"detect_type", "standalone_detect_type"} => last.ret = ""
        /\ last.op = "get_processor" => last.ret = None
        /\ last.op = "process_file" =>
              /\ last.ret = None /\ ~last.invoked
              /\ abspath(last.path) \notin reg.processed_files
              /\ EntriesFor(reg, abspath(last.path)) = <<>>

GarbagePython(p) == realpath(p).segs = <<D_venv, Bin_py>>

C29_KeyIsDispatchType ==
    \A i \in 1..Len(reg.current_chunk) :
        \A k \in 1..Len(reg.current_chunk[i].entries) :
            LET proc == get_processor(reg, reg.current_chunk[i].entries[k].path)
            IN  /\ proc # None
                /\ reg.current_chunk[i].file_type \in get_supported_types(proc)

\* C27: when process_file has returned, and as long as no materialization
\* has removed the chunk files, the path it was given is in the ledger
\* exactly when an entry for it is in the in-memory chunk or in a chunk file
C27_LedgerIffEntry ==
    (last.op \in {"process_file", "step"} /\ ~last.raised /\ reg.chunk_dir # "removed") =>
        (abspath(last.path) \in reg.processed_files
            <=> EntriesFor(reg, abspath(last.path)) # <<>>)

\* C28: a chunk file leaves the disk only when the rows of its entries are
\* in an output table
C28_NoChunkDeletedUnwritten ==
    [][ \A n \in ChunkFiles(reg) \ ChunkFiles(reg') :
            ChunkRows(reg.disk[n]) \subseteq OutputRows(reg'.csv) ]_vars

\* C30: the chunk counter moves by one and only with a successful flush,
\* which writes a chunk file of a name not used before, changes no other
\* chunk file and empties the in-memory chunk; a flush of an empty chunk
\* changes nothing; a failed write leaves the counter, the chunk files and
\* the in-memory chunk as they were
C30_CounterStepsWithFlush ==
    [][ /\ reg'.chunk_counter \in { reg.chunk_counter, reg.chunk_counter + 1 }
        /\ reg'.chunk_counter = reg.chunk_counter + 1 =>
              /\ reg.chunk_counter \notin ChunkFiles(reg)
              /\ ChunkFiles(reg') = ChunkFiles(reg) \cup {reg.chunk_counter}
              /\ \A n \in ChunkFiles(reg) : reg'.disk[n] = reg.disk[n]
              /\ reg'.current_chunk = <<>>
        /\ reg'.disk # reg.disk => reg'.chunk_counter = reg.chunk_counter + 1
        /\ (last'.op = "write_chunk" /\ reg.current_chunk = <<>>) =>
              (reg' = reg /\ ~last'.raised)
        /\ last'.write_failed =>
              /\ reg'.chunk_counter = reg.chunk_counter
              /\ reg'.disk = reg.disk
              /\ reg'.current_chunk # <<>>
              /\ last'.op = "write_chunk" => reg'.current_chunk = reg.current_chunk
              /\ \A e \in Range(EntriesOf(reg.current_chunk)) :
                    e \in Range(EntriesOf(reg'.current_chunk)) ]_vars

\* chunks were flushed, and then a write failed on a filled chunk
C30_Witness ==
    /\ last.op = "write_chunk"
    /\ last.write_failed
    /\ reg.chunk_counter >= 2
    /\ ChunkFiles(reg) = 0..(reg.chunk_counter - 1)
    /\ reg.current_chunk # <<>>

====
